---- MODULE Spec2Model ----
(***************************************************************************)
(* generate-pdf-docs.py: discovery of the *.md files under a root, the     *)
(* table of contents and the body sections of the composite HTML document, *)
(* the render call and the post-run report.                                *)
(*                                                                         *)
(* A string is a sequence of one-character strings; a path is a sequence   *)
(* of components (pathlib's parts), each a string.                         *)
(***************************************************************************)
EXTENDS Integers, Sequences, FiniteSets, TLC

VARIABLES
    rootExists,        \* repo_path.exists()
    fs,                \* the entries under the root: [path, kind, content]
    pc,                \* position of the main program
    md_files,          \* the list md_files (paths relative to the root)
    i,                 \* the loop index of enumerate(md_files)
    html_content,      \* the composite document, as a sequence of fragments
    content_sections,  \* the list content_sections
    renderCalls,       \* number of write_pdf calls made
    artifactWritten,   \* write_pdf has written (part of) <output_name>.pdf
    renderRaised,      \* "Error generating PDF" was printed
    reported,          \* the "=== Final Results ===" listing has run
    args,              \* input of a call of a pure function
    result             \* its result

vars == <<rootExists, fs, pc, md_files, i, html_content, content_sections,
          renderCalls, artifactWritten, renderRaised, reported, args, result>>

---------------------------------------------------------------------------
(* Bounds *)

\* most entries a modelled directory tree holds
MaxEntries == 3
\* the same, for the runs whose termination is checked
MaxFairEntries == 1
\* longest input string given to sanitize_anchor on its own
MaxLen == 3
\* longest file stem of the two paths whose anchors are compared
MaxStem == 2
\* largest discovery-order index of the two anchors compared
MaxIndex == 12

---------------------------------------------------------------------------
(* Characters *)

TAB == "\t"

LowerLetters == {"a", "b", "c", "d", "m", "s", "t", "u", "x"}
UpperLetters == {"A"}
DigitChars == {"0", "1", "2", "3", "4", "5", "6", "7", "8", "9"}

\* \w of the pattern at line 11
WordChars == LowerLetters \cup UpperLetters \cup DigitChars \cup {"_"}
\* \s of the pattern at line 11, and what str.strip() removes
SpaceChars == {" ", TAB}

\* code point of a character (str comparison compares code points)
Ord(c) ==
    CASE c = TAB -> 9   [] c = " " -> 32  [] c = "-" -> 45  [] c = "." -> 46
      [] c = "/" -> 47  [] c = "0" -> 48  [] c = "1" -> 49  [] c = "2" -> 50
      [] c = "3" -> 51  [] c = "4" -> 52  [] c = "5" -> 53  [] c = "6" -> 54
      [] c = "7" -> 55  [] c = "8" -> 56  [] c = "9" -> 57  [] c = "A" -> 65
      [] c = "_" -> 95  [] c = "a" -> 97  [] c = "b" -> 98  [] c = "c" -> 99
      [] c = "d" -> 100 [] c = "m" -> 109 [] c = "s" -> 115 [] c = "t" -> 116
      [] c = "u" -> 117 [] c = "x" -> 120

\* str.lower() on one character
LowerChar(c) == IF c = "A" THEN "a" ELSE c

---------------------------------------------------------------------------
(* Strings *)

\* s < t for two str values: lexicographic by code point
RECURSIVE StrLess(_, _)
StrLess(s, t) ==
    IF t = <<>> THEN FALSE
    ELSE IF s = <<>> THEN TRUE
    ELSE IF Head(s) = Head(t) THEN StrLess(Tail(s), Tail(t))
    ELSE Ord(Head(s)) < Ord(Head(t))

\* re.sub(r'[^\w\s-]', '', text): drop every character outside \w, \s and "-"
RECURSIVE ReSub(_)
ReSub(text) ==
    IF text = <<>> THEN <<>>
    ELSE IF Head(text) \in WordChars \cup SpaceChars \cup {"-"}
         THEN <<Head(text)>> \o ReSub(Tail(text))
         ELSE ReSub(Tail(text))

RECURSIVE LStrip(_)
LStrip(s) ==
    IF s # <<>> /\ Head(s) \in SpaceChars THEN LStrip(Tail(s)) ELSE s

RECURSIVE RStrip(_)
RStrip(s) ==
    IF s # <<>> /\ s[Len(s)] \in SpaceChars
    THEN RStrip(SubSeq(s, 1, Len(s) - 1))
    ELSE s

\* str.strip(): leading and trailing whitespace removed
Strip(s) == RStrip(LStrip(s))

\* str.replace(' ', '-'): the space character only
ReplaceSpace(s) == [k \in 1..Len(s) |-> IF s[k] = " " THEN "-" ELSE s[k]]

\* str.lower()
Lower(s) == [k \in 1..Len(s) |-> LowerChar(s[k])]

sanitize_anchor(text) == Lower(ReplaceSpace(Strip(ReSub(text))))

\* str(n) for n >= 0
RECURSIVE Digits(_)
Digits(n) ==
    LET d == CHOOSE c \in DigitChars : Ord(c) = 48 + (n % 10)
    IN  IF n < 10 THEN <<d>> ELSE Digits(n \div 10) \o <<d>>

SectionPrefix == <<"s", "e", "c", "t", "i", "o", "n", "-">>

\* faulty variant: the index and the sanitized path are not separated
AnchorNoSeparator(idx, text) ==
    SectionPrefix \o Digits(idx) \o sanitize_anchor(text)

\* f"section-{i}-{sanitize_anchor(str(relative_path))}", text = str(relative_path)
AnchorOf(idx, text) ==
    SectionPrefix \o Digits(idx) \o <<"-">> \o sanitize_anchor(text)

---------------------------------------------------------------------------
(* Paths *)

\* str(path): the components joined by "/"
RECURSIVE Str(_)
Str(path) ==
    IF Len(path) = 0 THEN <<>>
    ELSE IF Len(path) = 1 THEN path[1]
    ELSE path[1] \o <<"/">> \o Str(Tail(path))

\* faulty variant: paths ordered as their full path strings are
StrPathLess(p, q) == StrLess(Str(p), Str(q))

\* p < q for two PosixPath values: their lists of parts are compared, part
\* by part, each part as a str
RECURSIVE PathLess(_, _)
PathLess(p, q) ==
    IF q = <<>> THEN FALSE
    ELSE IF p = <<>> THEN TRUE
    ELSE IF Head(p) = Head(q) THEN PathLess(Tail(p), Tail(q))
    ELSE StrLess(Head(p), Head(q))

\* sorted(S) for a set S of distinct paths
RECURSIVE Sorted(_)
Sorted(S) ==
    IF S = {} THEN <<>>
    ELSE LET m == CHOOSE p \in S : \A q \in S \ {p} : PathLess(p, q)
         IN  <<m>> \o Sorted(S \ {m})

\* path.name
Name(path) == path[Len(path)]

EndsWith(s, suffix) ==
    /\ Len(s) >= Len(suffix)
    /\ SubSeq(s, Len(s) - Len(suffix) + 1, Len(s)) = suffix

MD == <<".", "m", "d">>
TXT == <<".", "t", "x", "t">>

\* the pattern "*.md" of rglob, matched against a name
MatchesPattern(name) == EndsWith(name, MD)

---------------------------------------------------------------------------
(* The directory tree under the root *)

Contents == {"text", "blank", "raises"}

\* paths of candidate *.md files
MdPaths ==
    { << <<"a", "-", "b">> \o MD >>,
      << <<"a">>, <<"b">> \o MD >>,
      << <<"a", " ", "b">> \o MD >>,
      << <<"a", TAB, "b">> \o MD >>,
      << <<"a">> \o MD >>,
      << <<"c">> \o MD >>,
      << <<"s", "u", "b">>, <<"b">> \o MD >>,
      << <<"d">> \o MD, <<"x">> \o MD >> }

\* a directory whose name matches the pattern
DirPaths == { << <<"d">> \o MD >> }

\* a regular file whose name does not
OtherPaths == { << <<"c">> \o TXT >> }

\* the trees of at most n entries
Trees(n) ==
    UNION { { { [path |-> p,
                 kind |-> IF p \in DirPaths THEN "dir" ELSE "file",
                 content |-> IF p \in MdPaths THEN c[p] ELSE "none"] : p \in ps }
              : c \in [ps \cap MdPaths -> Contents] }
            : ps \in { x \in SUBSET (MdPaths \cup DirPaths \cup OtherPaths) :
                         Cardinality(x) <= n } }

\* the directories a tree implies: every proper prefix of an entry's path
ImpliedDirs(tree) ==
    UNION { { SubSeq(e.path, 1, k) : k \in 1..(Len(e.path) - 1) } : e \in tree }
        \ { e.path : e \in tree }

\* everything under the root, at any depth
Entries(tree) ==
    { [path |-> e.path, kind |-> e.kind] : e \in tree }
        \cup { [path |-> d, kind |-> "dir"] : d \in ImpliedDirs(tree) }

\* repo_path.rglob("*.md")
Rglob(tree) == { e \in Entries(tree) : MatchesPattern(Name(e.path)) }

\* md_file.is_file()
IsFile(e) == e.kind = "file"

\* the list md_files after line 31
Discovered(tree) == Sorted({ e.path : e \in { x \in Rglob(tree) : IsFile(x) } })

\* what opening, reading and converting the file at `path` comes to:
\* "text" (a section), "blank" (empty after strip) or "raises"
Outcome(tree, path) ==
    IF \E e \in tree : e.path = path /\ e.kind = "file"
    THEN (CHOOSE e \in tree : e.path = path).content
    ELSE "raises"

---------------------------------------------------------------------------
(* The composite document *)

Fragment(tag, anchor, path) == [tag |-> tag, anchor |-> anchor, path |-> path]

\* lines 171-186: the head, the title and the opening of the list
HeadFragment == Fragment("head", <<>>, <<>>)
\* line 199: one <li> with its link
NavFragment(anchor, path) == Fragment("li", anchor, path)
\* lines 230-233
TocCloseFragment == Fragment("toc_close", <<>>, <<>>)
\* lines 237-242: one file-section div
SectionFragment(anchor, path) == Fragment("section", anchor, path)
\* line 245
HtmlCloseFragment == Fragment("html_close", <<>>, <<>>)

\* faulty variant: the list holds the last section only
SectionsReplaced(sections, anchor, path, outcome) ==
    IF outcome = "text" THEN << <<anchor, path>> >> ELSE sections

\* lines 202-227: content_sections after one file
SectionsAfter(sections, anchor, path, outcome) ==
    IF outcome = "text" THEN Append(sections, <<anchor, path>>) ELSE sections

\* faulty variant: the sections are emitted last first
BodyReversed(sections) ==
    [k \in 1..Len(sections) |->
        SectionFragment(sections[Len(sections) + 1 - k][1],
                        sections[Len(sections) + 1 - k][2])]

\* lines 236-242: the body, one fragment per element of content_sections
Body(sections) ==
    [k \in 1..Len(sections) |-> SectionFragment(sections[k][1], sections[k][2])]

---------------------------------------------------------------------------
(* Control flow of create_pdf_from_repo and of the main program *)

\* line 20
RootMissing(exists) == ~exists

\* faulty variant: an empty list is not noticed
NoMatchesNever(files) == FALSE

\* line 39
NoMatches(files) == files = <<>>

\* faulty variant: an empty file ends the loop
IndexAfterBreak(idx, n, outcome) == IF outcome = "blank" THEN n ELSE idx + 1

\* lines 191, 208, 226: the loop goes on to the next file whatever happened
IndexAfter(idx, n, outcome) == idx + 1

\* faulty variant: the error of write_pdf leaves the function
AfterRenderUncaught(outcome) == IF outcome = "raises" THEN "crashed" ELSE "report"

\* lines 248-264: create_pdf_from_repo returns, write_pdf raising or not
AfterRender(outcome) == "report"

\* the state when the main program starts, the root holding one of `trees`
Start(trees) ==
    /\ rootExists \in BOOLEAN
    /\ fs \in IF rootExists THEN trees ELSE {{}}
    /\ pc = "start"
    /\ md_files = <<>>
    /\ i = 0
    /\ html_content = <<>>
    /\ content_sections = <<>>
    /\ renderCalls = 0
    /\ artifactWritten = FALSE
    /\ renderRaised = FALSE
    /\ reported = FALSE
    /\ args = <<>>
    /\ result = <<>>

Init == Start(Trees(MaxEntries))

FairInit == Start(Trees(MaxFairEntries))

\* lines 14-22
CheckRoot ==
    /\ pc = "start"
    /\ pc' = IF RootMissing(rootExists) THEN "report" ELSE "discover"
    /\ UNCHANGED <<rootExists, fs, md_files, i, html_content, content_sections,
                   renderCalls, artifactWritten, renderRaised, reported, args,
                   result>>

\* lines 24-46 and 170-189
Discover ==
    /\ pc = "discover"
    /\ md_files' = Discovered(fs)
    /\ IF NoMatches(md_files')
       THEN /\ pc' = "report"
            /\ UNCHANGED <<html_content, content_sections, i>>
       ELSE /\ pc' = "loop"
            /\ html_content' = <<HeadFragment>>
            /\ content_sections' = <<>>
            /\ i' = 0
    /\ UNCHANGED <<rootExists, fs, renderCalls, artifactWritten, renderRaised,
                   reported, args, result>>

\* lines 191-227: one iteration of the loop over md_files
ProcessFile ==
    /\ pc = "loop"
    /\ i < Len(md_files)
    /\ LET relative_path == md_files[i + 1]
           anchor == AnchorOf(i, Str(relative_path))
           outcome == Outcome(fs, relative_path)
       IN  /\ html_content' = Append(html_content, NavFragment(anchor, relative_path))
           /\ content_sections' =
                  SectionsAfter(content_sections, anchor, relative_path, outcome)
           /\ i' = IndexAfter(i, Len(md_files), outcome)
    /\ UNCHANGED <<rootExists, fs, pc, md_files, renderCalls, artifactWritten,
                   renderRaised, reported, args, result>>

\* lines 229-245: the list is closed, the sections and the end are appended
Assemble ==
    /\ pc = "loop"
    /\ i >= Len(md_files)
    /\ html_content' =
           html_content \o <<TocCloseFragment>> \o Body(content_sections)
               \o <<HtmlCloseFragment>>
    /\ pc' = "render"
    /\ UNCHANGED <<rootExists, fs, md_files, i, content_sections, renderCalls,
                   artifactWritten, renderRaised, reported, args, result>>

\* lines 247-264: write_pdf succeeds, or raises with or without a partial file
Render ==
    /\ pc = "render"
    /\ \E outcome \in {"ok", "raises"} :
          /\ renderCalls' = renderCalls + 1
          /\ artifactWritten' \in IF outcome = "ok" THEN {TRUE} ELSE BOOLEAN
          /\ renderRaised' = (outcome = "raises")
          /\ pc' = AfterRender(outcome)
    /\ UNCHANGED <<rootExists, fs, md_files, i, html_content, content_sections,
                   reported, args, result>>

\* lines 270-273
Report ==
    /\ pc = "report"
    /\ reported' = TRUE
    /\ pc' = "done"
    /\ UNCHANGED <<rootExists, fs, md_files, i, html_content, content_sections,
                   renderCalls, artifactWritten, renderRaised, args, result>>

Next == CheckRoot \/ Discover \/ ProcessFile \/ Assemble \/ Render \/ Report

Spec == Init /\ [][Next]_vars

\* the program is sequential and every step of it returns
FairSpec == FairInit /\ [][Next]_vars /\ WF_vars(Next)

---------------------------------------------------------------------------
(* sanitize_anchor and the anchor format on their own *)

\* the strings over `alphabet` of length at most n
RECURSIVE Strings(_, _)
Strings(alphabet, n) ==
    IF n = 0 THEN {<<>>}
    ELSE LET shorter == Strings(alphabet, n - 1)
         IN  shorter \cup { Append(t, c) : t \in shorter, c \in alphabet }

TextChars == {"a", "A", "1", "_", " ", TAB, "-", ".", "/"}
StemChars == {"a", "1", "-", " ", "."}

\* the main program does not run
Idle ==
    /\ rootExists = FALSE
    /\ fs = {}
    /\ md_files = <<>>
    /\ i = 0
    /\ html_content = <<>>
    /\ content_sections = <<>>
    /\ renderCalls = 0
    /\ artifactWritten = FALSE
    /\ renderRaised = FALSE
    /\ reported = FALSE

UnchangedMain ==
    UNCHANGED <<rootExists, fs, md_files, i, html_content, content_sections,
                renderCalls, artifactWritten, renderRaised, reported>>

SanitizeInit ==
    /\ Idle
    /\ pc = "call"
    /\ args \in { <<text>> : text \in Strings(TextChars, MaxLen) }
    /\ result = <<>>

\* line 11
Sanitize ==
    /\ pc = "call"
    /\ result' = <<sanitize_anchor(args[1])>>
    /\ pc' = "return"
    /\ UNCHANGED args
    /\ UnchangedMain

SanitizeSpec == SanitizeInit /\ [][Sanitize]_vars

\* relative paths of *.md files in the root itself
StemPaths == { <<stem \o MD>> : stem \in Strings(StemChars, MaxStem) \ {<<>>} }

\* two positions idx1 < idx2 of a sorted md_files and the paths found there
AnchorInit ==
    /\ Idle
    /\ pc = "call"
    /\ \E idx1 \in 0..MaxIndex, idx2 \in 0..MaxIndex :
          /\ idx1 < idx2
          /\ \E p \in StemPaths, q \in StemPaths :
                /\ PathLess(p, q)
                /\ args = <<idx1, p, idx2, q>>
    /\ result = <<>>

\* line 193, for both positions
Anchors ==
    /\ pc = "call"
    /\ result' = <<AnchorOf(args[1], Str(args[2])), AnchorOf(args[3], Str(args[4]))>>
    /\ pc' = "return"
    /\ UNCHANGED args
    /\ UnchangedMain

AnchorSpec == AnchorInit /\ [][Anchors]_vars

---------------------------------------------------------------------------
(* Properties *)

\* positions of the fragments of one kind in the composite document
Positions(tag) == { n \in 1..Len(html_content) : html_content[n].tag = tag }

\* the document is complete: line 245 has run
Assembled ==
    html_content # <<>> /\ html_content[Len(html_content)].tag = "html_close"

\* the *.md regular files of the tree, from the tree itself
MatchingFiles ==
    { e \in fs : e.kind = "file" /\ Len(Name(e.path)) >= 3
                 /\ SubSeq(Name(e.path), Len(Name(e.path)) - 2, Len(Name(e.path)))
                        = <<".", "m", "d">> }

\* the files that were read and converted without being skipped
ConvertedFiles == { e \in MatchingFiles : e.content = "text" }

\* create_pdf_from_repo has returned
Returned == pc \in {"report", "done"}

\* position of a path in md_files (0 when absent)
IndexIn(files, path) ==
    IF \E k \in 1..Len(files) : files[k] = path
    THEN CHOOSE k \in 1..Len(files) : files[k] = path
    ELSE 0

\* C1: in the assembled document the number of <li> entries equals the
\* number of successfully processed files (the length of content_sections);
\* empty and unreadable files have no entry.
C1_NavCountIsProcessedCount ==
    Assembled =>
        /\ Cardinality(Positions("li")) = Len(content_sections)
        /\ \A n \in Positions("li") :
               \E e \in ConvertedFiles : e.path = html_content[n].path

\* C2: every file read and converted without being skipped appears exactly
\* once in the navigation list and exactly once as a body section.
C2_ConvertedOnceInNavAndBody ==
    Assembled =>
        \A e \in ConvertedFiles :
            /\ Cardinality({ n \in Positions("li") :
                               html_content[n].path = e.path }) = 1
            /\ Cardinality({ n \in Positions("section") :
                               html_content[n].path = e.path }) = 1

\* C2 witness: a document of two converted files and a skipped one
C2_Witness ==
    /\ Assembled
    /\ Cardinality(ConvertedFiles) = 2
    /\ Cardinality(MatchingFiles) = 3

\* C4: the table of contents is complete and closed before the first body
\* section; the body sections are in strictly ascending discovery order,
\* the relative order of their files' navigation entries.
C4_TocThenSectionsInOrder ==
    Assembled =>
        /\ Cardinality(Positions("toc_close")) = 1
        /\ \A t \in Positions("toc_close") :
              /\ \A n \in Positions("li") : n < t
              /\ \A n \in Positions("section") : t < n
        /\ \A m, n \in Positions("section") :
              m < n =>
                 /\ 0 < IndexIn(md_files, html_content[m].path)
                 /\ IndexIn(md_files, html_content[m].path)
                        < IndexIn(md_files, html_content[n].path)
                 /\ \E a, b \in Positions("li") :
                        /\ a < b
                        /\ html_content[a].path = html_content[m].path
                        /\ html_content[b].path = html_content[n].path

\* C4 witness: two sections with a skipped file between them in md_files
C4_Witness ==
    /\ Assembled
    /\ Len(md_files) = 3
    /\ Len(content_sections) = 2
    /\ md_files[2] \notin { content_sections[k][2] : k \in 1..2 }

\* C5: with a missing root, or a root holding no matching regular file, the
\* run never gets to the assembly or the render step, writes no artifact,
\* and does not end in an unhandled error.
C5_NothingToDoWritesNothing ==
    (~rootExists \/ MatchingFiles = {}) =>
        /\ pc \in {"start", "discover", "report", "done"}
        /\ html_content = <<>>
        /\ renderCalls = 0
        /\ ~artifactWritten

\* C5 witness: a run over a root without matching regular files has ended
C5_Witness ==
    /\ pc = "done"
    /\ rootExists
    /\ MatchingFiles = {}
    /\ \E e \in fs : e.kind = "dir"
    /\ \E e \in fs : e.kind = "file"

\* C6: with at least one matching file, whatever files are skipped, the
\* loop visits every discovered file in order and the render step is
\* reached exactly once.
C6_SkipsAreLocal ==
    /\ renderCalls <= 1
    /\ (Returned /\ MatchingFiles # {}) =>
          /\ Len(md_files) = Cardinality(MatchingFiles)
          /\ Cardinality(Positions("li")) = Len(md_files)
          /\ \A k \in 1..Len(md_files) :
                /\ html_content[k + 1].tag = "li"
                /\ html_content[k + 1].path = md_files[k]
          /\ renderCalls = 1

\* C6 witness: every one of three discovered files was skipped, one of them
\* empty and one unreadable, and the render step ran
C6_Witness ==
    /\ Returned
    /\ Len(md_files) = 3
    /\ content_sections = <<>>
    /\ \E e \in MatchingFiles : e.content = "blank"
    /\ \E e \in MatchingFiles : e.content = "raises"
    /\ renderCalls = 1

\* C7: on every path (missing root, no match, render success, render
\* failure) the run gets to the post-run report; a raising write_pdf is
\* caught and the function returns.
C7_ReportAlwaysRuns == <>(pc = "done" /\ reported)

\* C7 witness: write_pdf raised and the report ran
C7_Witness == renderRaised /\ reported /\ pc = "done"

\* C10: every navigation entry's target is the id of exactly one body
\* section, and every body section's id the target of exactly one entry.
C10_LinkIntegrity ==
    Assembled =>
        /\ \A n \in Positions("li") :
              Cardinality({ m \in Positions("section") :
                              html_content[m].anchor = html_content[n].anchor }) = 1
        /\ \A m \in Positions("section") :
              Cardinality({ n \in Positions("li") :
                              html_content[n].anchor = html_content[m].anchor }) = 1

\* C3: the anchors of two different positions of one run differ, also when
\* the two paths sanitize to the same string or the sanitized path starts
\* with digits and hyphens.
C3_AnchorsDistinct == pc = "return" /\ Len(result) = 2 => result[1] # result[2]

\* C3 witness: two paths that sanitize to the same string, which starts
\* with a digit, at a one-digit and a two-digit position
C3_Witness ==
    /\ pc = "return"
    /\ Len(result) = 2
    /\ args[1] < 10
    /\ args[3] >= 10
    /\ sanitize_anchor(Str(args[2])) = sanitize_anchor(Str(args[4]))
    /\ Head(sanitize_anchor(Str(args[2]))) \in DigitChars

\* C8: the result of sanitize_anchor holds only word characters, spaces
\* and hyphens, has no leading or trailing whitespace, has no space left
\* (each became a hyphen) and is lower-cased.
C8_SanitizedShape ==
    pc = "return" /\ Len(result) = 1 =>
        LET out == result[1]
        IN  /\ \A k \in 1..Len(out) :
                  /\ out[k] \in WordChars \cup {" ", "-"}
                  /\ out[k] # " "
                  /\ out[k] \notin UpperLetters
            /\ out # <<>> => /\ out[1] \notin SpaceChars
                             /\ out[Len(out)] \notin SpaceChars

\* discovery is over
DiscoveryDone == rootExists /\ pc \notin {"start", "discover"}

\* p comes before q when their components are compared one by one
ComponentwiseBefore(p, q) ==
    \E k \in 1..(Len(p) + 1) :
        /\ \A n \in 1..(k - 1) : n <= Len(q) /\ p[n] = q[n]
        /\ \/ k = Len(p) + 1 /\ Len(q) >= k
           \/ k <= Len(p) /\ k <= Len(q) /\ StrLess(p[k], q[k])

\* C9 as stated: md_files holds exactly the matching regular files, each
\* once, in the order of their full path strings.
C9_SortedByFullPathString ==
    DiscoveryDone =>
        /\ { md_files[k] : k \in 1..Len(md_files) } = { e.path : e \in MatchingFiles }
        /\ Len(md_files) = Cardinality(MatchingFiles)
        /\ \A k \in 1..(Len(md_files) - 1) :
              StrLess(Str(md_files[k]), Str(md_files[k + 1]))

\* C9 as amended: md_files holds exactly the matching regular files, each
\* once, ordered by comparing path components one by one, so that a file
\* in a directory "a" precedes a file "a-b.md" beside that directory.
C9_SortedComponentwise ==
    DiscoveryDone =>
        /\ { md_files[k] : k \in 1..Len(md_files) } = { e.path : e \in MatchingFiles }
        /\ Len(md_files) = Cardinality(MatchingFiles)
        /\ \A k \in 1..(Len(md_files) - 1) :
              ComponentwiseBefore(md_files[k], md_files[k + 1])

\* C9 witness: "a/b.md" and "a-b.md" were both discovered
C9_Witness ==
    /\ DiscoveryDone
    /\ \E k \in 1..Len(md_files) : md_files[k] = << <<"a">>, <<"b", ".", "m", "d">> >>
    /\ \E k \in 1..Len(md_files) :
          md_files[k] = << <<"a", "-", "b", ".", "m", "d">> >>

====
